---- MODULE Spec2Model ----
(***************************************************************************)
(* Model of create_pdf (src/proxy.py), the layout and pagination engine of *)
(* the card proxy tool, together with the calls it makes on the drawing    *)
(* backend (reportlab's Canvas: drawImage, rect, showPage, save).          *)
(*                                                                         *)
(* Lengths are integers counting tenths of a millimetre: the code holds    *)
(* them as floats in points (n * mm), and every length the model draws has *)
(* at most one decimal of a millimetre, as the spin boxes of the window    *)
(* deliver them (setDecimals(1)).  Sums, products and differences of       *)
(* lengths are modelled exactly; the one discontinuous step, the float     *)
(* floor division of lines 53-54, is modelled with its rounding (see       *)
(* RoundedDown).                                                           *)
(***************************************************************************)
EXTENDS Integers, Sequences, FiniteSets, TLC

VARIABLES
    image_quantity_list,  \* argument: sequence of [image, qty]
    page_option,          \* argument: "A4" | "A3"
    draw_guidelines,      \* argument: BOOLEAN
    remove_margin,        \* argument: BOOLEAN
    card_size_mode,       \* argument: "standard" | "custom" | "other"
    custom_card_size,     \* argument: None or <<width, height>>
    ps,                   \* page size <<width, height>>
    card_width, card_height,
    h_gap, v_gap,
    grid_x, grid_y, total_per_page,
    images,               \* the flattened list of line 64-66
    i,                    \* loop index of line 68
    col, row,             \* locals of lines 70-71, reused by lines 80 and 87
    pc,                   \* position in create_pdf
    calls,                \* the backend calls made so far, in order
    guidelines_checkbox,  \* window: [checked, enabled] of the guidelines box
    margin_checkbox       \* window: [checked] of the remove-margin box

args == <<image_quantity_list, page_option, draw_guidelines, remove_margin,
          card_size_mode, custom_card_size>>
geometry == <<ps, card_width, card_height, h_gap, v_gap, grid_x, grid_y,
              total_per_page>>
window == <<guidelines_checkbox, margin_checkbox>>
vars == <<args, geometry, images, i, col, row, pc, calls, window>>

---------------------------------------------------------------------------
(* Bounds of the model.                                                    *)

MaxItems == 2
MaxCopies == 2
MaxRows == 1

---------------------------------------------------------------------------
(* Inputs.                                                                 *)

ImageNames == {"a", "b"}

None == <<>>

\* Custom card sizes drawn by the model, in tenths of a millimetre.
CustomSizes == { <<3000, 3000>>, <<1000, 1400>>, <<635, 586>>, <<2100, 1485>> }

\* A quantity of 0 is what the spin box of the window never delivers
\* (setMinimum(1), line 262) but a caller of create_pdf can pass.
PrintItems == [image : ImageNames, qty : 0 .. MaxCopies]

RECURSIVE SeqsUpTo(_, _)
SeqsUpTo(S, n) ==
    IF n = 0 THEN { <<>> }
    ELSE LET shorter == SeqsUpTo(S, n - 1)
         IN  shorter \cup { Append(s, e) : s \in { t \in shorter : Len(t) = n - 1 }, e \in S }

\* Scenario A of the specification: ten items with one copy each, on A4 with
\* the standard card.
ScenarioA == [k \in 1 .. 10 |-> [image |-> IF k % 2 = 1 THEN "a" ELSE "b", qty |-> 1]]
\* Scenario B of the specification: one item with twenty copies, on A4 with
\* the standard card.
ScenarioB == << [image |-> "a", qty |-> 20] >>

Scenarios == {ScenarioA, ScenarioB}

\* A list with a negative quantity.
NegativeList == << [image |-> "a", qty |-> -1], [image |-> "b", qty |-> 1] >>

ItemLists == SeqsUpTo(PrintItems, MaxItems) \cup Scenarios \cup {NegativeList}

\* card_size_mode is "standard" for the first combo entry (line 38), "custom"
\* for the second (line 40), "other" for any other string (line 45).
\* The card choices that take the standard size by a fallback (lines 44
\* and 46) are drawn with the lists of at most one item only.
FallbackChoices == { <<"custom", None>>, <<"other", None>> }

CardChoices ==
    { <<"standard", None>> } \cup FallbackChoices
        \cup { <<"custom", s>> : s \in CustomSizes }

---------------------------------------------------------------------------
(* Helpers of create_pdf.                                                  *)

x_start == 0
y_start == 0

\* reportlab: A4 = (210*mm, 297*mm), A3 = (297*mm, 420*mm); line 33 turns A3
\* to landscape, line 35 keeps A4 portrait.
PageSize(option) ==
    IF option = "A3" THEN <<4200, 2970>> ELSE <<2100, 2970>>

CardSize(mode, custom) ==
    IF mode = "standard" THEN <<635, 889>>
    ELSE IF mode = "custom"
         THEN IF custom # None THEN <<custom[1], custom[2]>> ELSE <<635, 889>>
         ELSE <<635, 889>>

Gap(remove) == IF remove THEN 0 ELSE 10

\* IEEE-754 double evaluation of (ps[k] + gap) // (card + gap), lines 53-54,
\* differs from the exact quotient only where the exact quotient is a whole
\* number and the rounded operands fall just short of it: the float result is
\* then one less.  These are all such <<page length, gap, card length>> for
\* the two page formats, both gaps and every card length of 0.1 .. 500.0 mm
\* in steps of 0.1 mm (mm = 72.0 / 2.54 * 0.1).
RoundedDown ==
    { <<2100, 0, c>> : c \in {1, 2, 4, 5, 10, 15, 20, 21, 25, 30, 42, 50, 60,
                              84, 100, 105, 210, 420} }
    \cup { <<2100, 10, 201>> }
    \cup { <<2970, 0, c>> : c \in {1, 2, 11, 22, 27, 45, 54, 90} }
    \cup { <<2970, 10, 139>>, <<2970, 10, 586>> }
    \cup { <<4200, 0, c>> : c \in {1, 2, 4, 5, 8, 10, 15, 20, 21, 25, 30, 40,
                              42, 50, 60, 84, 100, 105, 120, 168, 200, 210,
                              420, 840} }
    \cup { <<4200, 10, 832>> }

\* int((page + gap) // (card + gap)) as the floats of lines 53-54 compute it.
FloorDiv(page, gap, card) ==
    ((page + gap) \div (card + gap))
        - (IF <<page, gap, card>> \in RoundedDown THEN 1 ELSE 0)

\* Lines 53-56: the grid count along one axis, at least 1.
GridCount(page, gap, card) ==
    LET n == FloorDiv(page, gap, card)
    IN  IF n < 1 THEN 1 ELSE n

\* Mutant of TotalPerPage: the grid counts are added.
TotalPerPageSum(gridX, gridY) == gridX + gridY

\* Line 57.
TotalPerPage(gridX, gridY) == gridX * gridY

\* Mutant of GuideCount: range(grid), the last guideline is missing.
GuideCountShort(grid) == grid

\* Lines 80 and 87: range(grid + 1) has grid + 1 elements.
GuideCount(grid) == grid + 1

\* Mutant of Repeat: the quantity is ignored, one copy per item.
RepeatOnce(image, qty) == <<image>>

\* Line 66: [image] * qty is the empty list when qty < 1.
Repeat(image, qty) == [k \in 1 .. (IF qty < 0 THEN 0 ELSE qty) |-> image]

\* Lines 64-66: images.extend([image] * qty) for each pair in turn.
RECURSIVE Expand(_)
Expand(list) ==
    IF list = <<>> THEN <<>>
    ELSE Repeat(Head(list).image, Head(list).qty) \o Expand(Tail(list))

\* Mutant of ColOf: the column is taken by division, as the row is.
ColOfDiv(pageIndex, gridX) == pageIndex \div gridX

\* Lines 69-73.
PageIndex(idx, perPage) == idx % perPage
ColOf(pageIndex, gridX) == pageIndex % gridX
RowOf(pageIndex, gridX) == pageIndex \div gridX
XOf(c, cardW, hGap) == x_start + c * (cardW + hGap)
YOf(r, cardH, vGap) == y_start + r * (cardH + vGap)

\* Mutant of PageEnds: every image ends its page.
PageEndsAlways(pageIndex, perPage, idx, count) == TRUE

\* Mutant of PageEnds: the last image of the run is forgotten.
PageEndsOnlyFull(pageIndex, perPage, idx, count) == pageIndex = perPage - 1

\* Line 77: the page is committed after this image.
PageEnds(pageIndex, perPage, idx, count) ==
    (pageIndex = perPage - 1) \/ (idx = count - 1)

\* Mutant of XLine: the guideline starts where the next card starts.
XLineOnCard(n, cardW, hGap) == x_start + n * (cardW + hGap)

\* Lines 81-84 and 88-91: the position of guideline number n.
XLine(n, cardW, hGap) ==
    IF n = 0 THEN x_start ELSE x_start + n * (cardW + hGap) - hGap
YLine(n, cardH, vGap) ==
    IF n = 0 THEN y_start ELSE y_start + n * (cardH + vGap) - vGap

\* Mutant of DrawImageCall: y is passed on as measured from the top.
DrawImageCallNoFlip(pageSize, image, x, y, w, h) ==
    [op |-> "drawImage", image |-> image, x |-> x, y |-> y, w |-> w, h |-> h]

\* The backend calls, with the arguments the backend receives.
\* draw_image, line 22: pc.drawImage(image, x, page_size[1] - y - h, w, h).
DrawImageCall(pageSize, image, x, y, w, h) ==
    [op |-> "drawImage", image |-> image, x |-> x, y |-> pageSize[2] - y - h,
     w |-> w, h |-> h]
\* fill_rect, line 27: pc.rect(x, page_size[1] - y - h, w, h, ...).
FillRectCall(pageSize, x, y, w, h) ==
    [op |-> "rect", image |-> "-", x |-> x, y |-> pageSize[2] - y - h,
     w |-> w, h |-> h]
ShowPageCall == [op |-> "showPage", image |-> "-", x |-> 0, y |-> 0, w |-> 0, h |-> 0]
SaveCall == [op |-> "save", image |-> "-", x |-> 0, y |-> 0, w |-> 0, h |-> 0]

---------------------------------------------------------------------------
(* The window's two option boxes.                                          *)

\* init_ui, lines 150-154: the guidelines box starts checked (and enabled, as
\* every widget does), the remove-margin box unchecked.
InitUi ==
    /\ guidelines_checkbox = [checked |-> TRUE, enabled |-> TRUE]
    /\ margin_checkbox = [checked |-> FALSE]

\* Mutant of UpdateOptions: the guidelines box is disabled but stays checked.
UpdateOptionsKeepCheck(marginChecked, guidelines) ==
    IF marginChecked
    THEN [guidelines EXCEPT !.enabled = FALSE]
    ELSE [guidelines EXCEPT !.enabled = TRUE]

\* update_options, lines 222-227: the guidelines box after the remove-margin
\* box has changed.
UpdateOptions(marginChecked, guidelines) ==
    IF marginChecked
    THEN [checked |-> FALSE, enabled |-> FALSE]
    ELSE [guidelines EXCEPT !.enabled = TRUE]

---------------------------------------------------------------------------
(* The state before create_pdf runs: the arguments are chosen, nothing is  *)
(* computed and no backend call is made.  The window is as init_ui leaves  *)
(* it: create_pdf neither reads nor changes it.                            *)

Init ==
    /\ InitUi
    /\ image_quantity_list \in ItemLists
    /\ page_option \in {"A4", "A3"}
    /\ draw_guidelines \in BOOLEAN
    /\ remove_margin \in BOOLEAN
    /\ \E choice \in CardChoices :
          /\ card_size_mode = choice[1]
          /\ custom_card_size = choice[2]
    /\ image_quantity_list \in Scenarios
          => (page_option = "A4" /\ card_size_mode = "standard")
    /\ <<card_size_mode, custom_card_size>> \in FallbackChoices
          => Len(image_quantity_list) <= 1
    /\ ps = <<0, 0>>
    /\ card_width = 0 /\ card_height = 0
    /\ h_gap = 0 /\ v_gap = 0
    /\ grid_x = 0 /\ grid_y = 0 /\ total_per_page = 0
    /\ images = <<>>
    /\ i = 0 /\ col = 0 /\ row = 0
    /\ pc = "start"
    /\ calls = <<>>

\* Lines 31-66: page size, card size, gaps, grid and the flattened list; the
\* loop of line 68 is entered when the list is not empty.
Begin ==
    /\ pc = "start"
    /\ LET size == PageSize(page_option)
           card == CardSize(card_size_mode, custom_card_size)
           gap == Gap(remove_margin)
           gx == GridCount(size[1], gap, card[1])
           gy == GridCount(size[2], gap, card[2])
           flat == Expand(image_quantity_list)
       IN  /\ ps' = size
           /\ card_width' = card[1]
           /\ card_height' = card[2]
           /\ h_gap' = gap
           /\ v_gap' = gap
           /\ grid_x' = gx
           /\ grid_y' = gy
           /\ total_per_page' = TotalPerPage(gx, gy)
           /\ images' = flat
           /\ pc' = IF Len(flat) = 0 THEN "save" ELSE "draw"
    /\ UNCHANGED <<window, args, i, col, row, calls>>

\* Lines 68-78: one image is placed; line 77 decides whether the page ends,
\* and then line 78 whether the guideline loop of line 80 is entered.  When
\* the page does not end, the loop of line 68 goes on to the next image, or
\* ends when there is none.
DrawImage ==
    /\ pc = "draw"
    /\ LET page_index == PageIndex(i, total_per_page)
           c == ColOf(page_index, grid_x)
           r == RowOf(page_index, grid_x)
           x == XOf(c, card_width, h_gap)
           y == YOf(r, card_height, v_gap)
           ends == PageEnds(page_index, total_per_page, i, Len(images))
       IN  /\ calls' = Append(calls,
                  DrawImageCall(ps, images[i + 1], x, y, card_width, card_height))
           /\ row' = r
           /\ col' = IF ends /\ draw_guidelines THEN 0 ELSE c
           /\ pc' = IF ends
                    THEN IF draw_guidelines THEN "vguide" ELSE "showpage"
                    ELSE IF i + 1 < Len(images) THEN "draw" ELSE "save"
           /\ i' = IF ends THEN i ELSE i + 1
    /\ UNCHANGED <<window, args, geometry, images>>

\* Lines 80-85: one vertical guideline, over the whole page height.
VGuide ==
    /\ pc = "vguide"
    /\ calls' = Append(calls,
           FillRectCall(ps, XLine(col, card_width, h_gap), 0, h_gap, ps[2]))
    /\ IF col + 1 < GuideCount(grid_x)
       THEN col' = col + 1 /\ row' = row /\ pc' = "vguide"
       ELSE col' = col /\ row' = 0 /\ pc' = "hguide"
    /\ UNCHANGED <<window, args, geometry, images, i>>

\* Lines 87-92: one horizontal guideline, over the whole page width.
HGuide ==
    /\ pc = "hguide"
    /\ calls' = Append(calls,
           FillRectCall(ps, 0, YLine(row, card_height, v_gap), ps[1], v_gap))
    /\ IF row + 1 < GuideCount(grid_y)
       THEN row' = row + 1 /\ pc' = "hguide"
       ELSE row' = row /\ pc' = "showpage"
    /\ UNCHANGED <<window, args, geometry, images, i, col>>

\* Line 93, then the next turn of the loop of line 68 or its end.
ShowPage ==
    /\ pc = "showpage"
    /\ calls' = Append(calls, ShowPageCall)
    /\ i' = i + 1
    /\ pc' = IF i + 1 < Len(images) THEN "draw" ELSE "save"
    /\ UNCHANGED <<window, args, geometry, images, col, row>>

\* Line 94.
Save ==
    /\ pc = "save"
    /\ calls' = Append(calls, SaveCall)
    /\ pc' = "done"
    /\ UNCHANGED <<window, args, geometry, images, i, col, row>>

Next == Begin \/ DrawImage \/ VGuide \/ HGuide \/ ShowPage \/ Save

Spec == Init /\ [][Next]_vars

---------------------------------------------------------------------------
(* What the claims read off the arguments and the backend calls.           *)

IsDraw(c) == c.op = "drawImage"
IsRect(c) == c.op = "rect"
IsCommit(c) == c.op = "showPage"
IsSave(c) == c.op = "save"
Never(c) == FALSE

\* A guideline rectangle as the backend receives it: vertical ones take the
\* whole page height, horizontal ones the whole page width.
IsVertical(c) == c.op = "rect" /\ c.w = h_gap /\ c.h = ps[2]
IsHorizontal(c) == c.op = "rect" /\ c.w = ps[1] /\ c.h = v_gap

\* Running(Counted, Resets, n)[k], for k in 1 .. n + 1, is the number of
\* Counted calls among the first k - 1 calls that come after the last Resets
\* call among them.
RECURSIVE Running(_, _, _)
Running(Counted(_), Resets(_), n) ==
    IF n = 0 THEN << 0 >>
    ELSE LET t == Running(Counted, Resets, n - 1)
         IN  Append(t, IF Resets(calls[n]) THEN 0
                       ELSE IF Counted(calls[n]) THEN t[n] + 1 ELSE t[n])

\* What precedes each call: the images drawn and the pages committed before
\* it in the run, and the images and the guideline rectangles drawn before it
\* on its own page.
DrawsBefore == Running(IsDraw, Never, Len(calls))
CommitsBefore == Running(IsCommit, Never, Len(calls))
PageDrawsBefore == Running(IsDraw, IsCommit, Len(calls))
PageRectsBefore == Running(IsRect, IsCommit, Len(calls))
PageVerticalBefore == Running(IsVertical, IsCommit, Len(calls))
PageHorizontalBefore == Running(IsHorizontal, IsCommit, Len(calls))

Calls(kind) == { k \in 1 .. Len(calls) : calls[k].op = kind }
NumDraws == Cardinality(Calls("drawImage"))
NumRects == Cardinality(Calls("rect"))
NumCommits == Cardinality(Calls("showPage"))

\* The number of images drawn on committed page p (counted from 1).
PageLoad(p) ==
    LET commits == CommitsBefore
    IN  Cardinality({ k \in Calls("drawImage") : commits[k] = p - 1 })

AllCopiesValid ==
    \A k \in 1 .. Len(image_quantity_list) : image_quantity_list[k].qty >= 1

RECURSIVE SumQty(_, _)
SumQty(list, n) == IF n = 0 THEN 0 ELSE SumQty(list, n - 1) + list[n].qty
SumCopies == SumQty(image_quantity_list, Len(image_quantity_list))

\* The item that placement n (counted from 0) is a copy of.
ItemOfPlacement(n) ==
    CHOOSE j \in 1 .. Len(image_quantity_list) :
        /\ SumQty(image_quantity_list, j - 1) <= n
        /\ n < SumQty(image_quantity_list, j)

CeilDiv(a, b) == (a + b - 1) \div b

Max(a, b) == IF a >= b THEN a ELSE b

slotsPerPage == grid_x * grid_y

---------------------------------------------------------------------------
(* Claims.                                                                 *)

\* C1: when every item has copies >= 1, the images drawn so far are a prefix
\* of the item list with each item repeated `copies` times contiguously, in
\* input order, and a finished run has drawn exactly sum(copies) images.
C1_DrawsAreContiguousExpansion ==
    AllCopiesValid =>
        LET draws == DrawsBefore
        IN  /\ \A k \in Calls("drawImage") :
                  /\ draws[k] < SumCopies
                  /\ calls[k].image =
                         image_quantity_list[ItemOfPlacement(draws[k])].image
            /\ pc = "done" => NumDraws = SumCopies

\* C1 witness: a finished run of two items with different images and several
\* copies each, spread over more than one page.
C1_Witness ==
    /\ pc = "done"
    /\ AllCopiesValid
    /\ Len(image_quantity_list) = 2
    /\ image_quantity_list[1].image # image_quantity_list[2].image
    /\ image_quantity_list[1].qty >= 2
    /\ image_quantity_list[2].qty >= 2
    /\ NumCommits >= 2
    /\ NumDraws = SumCopies

\* C2: the placement with global index n is drawn after exactly
\* n div slotsPerPage page commits, in column (n mod slotsPerPage) mod columns
\* and row (n mod slotsPerPage) div columns of the grid, and no two placements
\* of one page share a slot.
C2_SlotAssignment ==
    LET draws == DrawsBefore
        commits == CommitsBefore
    IN  /\ \A k \in Calls("drawImage") :
              LET n == draws[k]
                  slot == n % slotsPerPage
                  column == slot % grid_x
                  line == slot \div grid_x
              IN  /\ commits[k] = n \div slotsPerPage
                  /\ line < grid_y
                  /\ calls[k].x = column * (card_width + h_gap)
                  /\ calls[k].y = ps[2] - line * (card_height + v_gap) - card_height
        /\ \A k1, k2 \in Calls("drawImage") :
              (k1 # k2 /\ commits[k1] = commits[k2])
                  => <<calls[k1].x, calls[k1].y>> # <<calls[k2].x, calls[k2].y>>

\* C2 witness: on a grid of several columns and rows, an image drawn in a
\* later column of a later row, and an image drawn in a later column of a
\* later page.
C2_Witness ==
    LET commits == CommitsBefore
    IN  /\ grid_x >= 2 /\ grid_y >= 2
        /\ \E k \in Calls("drawImage") :
              calls[k].x > 0 /\ calls[k].y < ps[2] - card_height
        /\ \E k \in Calls("drawImage") :
              commits[k] >= 1 /\ calls[k].x > 0

\* C3: when every item has copies >= 1, a finished run has committed
\* ceil(sum(copies) / (columns * rows)) pages, none for the empty list; one
\* item with 20 copies on a 3 x 3 grid gives pages of 9, 9 and 2 images.
C3_PageCount ==
    (pc = "done" /\ AllCopiesValid) =>
        /\ NumCommits = CeilDiv(SumCopies, slotsPerPage)
        /\ image_quantity_list = <<>> => (NumDraws = 0 /\ NumCommits = 0)
        /\ (image_quantity_list = ScenarioB /\ grid_x = 3 /\ grid_y = 3)
              => (NumCommits = 3 /\ PageLoad(1) = 9 /\ PageLoad(2) = 9 /\ PageLoad(3) = 2)

\* C3 witness: the finished run of Scenario B on the 3 x 3 grid.
C3_Witness ==
    /\ pc = "done"
    /\ image_quantity_list = ScenarioB
    /\ grid_x = 3 /\ grid_y = 3
    /\ NumCommits = 3

\* C4: every commit closes a page that holds at least one image, and comes
\* right after an image that is the slotsPerPage-th of its page or the last
\* of the run; no page takes more than slotsPerPage images, and when the run
\* is finished the page of the last image is committed.
C4_PageClosedOnce ==
    LET draws == DrawsBefore
        pageDraws == PageDrawsBefore
    IN  /\ \A k \in Calls("showPage") :
              /\ pageDraws[k] >= 1
              /\ pageDraws[k] <= slotsPerPage
              /\ pageDraws[k] = slotsPerPage \/ draws[k] = Len(images)
        /\ \A k \in Calls("drawImage") : pageDraws[k] < slotsPerPage
        /\ pc = "done" => pageDraws[Len(calls) + 1] = 0

\* C4 witness: a finished run whose last image also fills its page, the
\* second one: two commits, no third.
C4_Witness ==
    /\ pc = "done"
    /\ slotsPerPage >= 2
    /\ NumDraws = 2 * slotsPerPage
    /\ NumCommits = 2

\* C5: with remove_margin (gap 0) no guideline rectangle is requested from
\* the backend, whatever draw_guidelines is: rectangles are requested only
\* when draw_guidelines holds and the gap is positive.
C5_NoGuidelinesAtZeroGap ==
    NumRects > 0 => (draw_guidelines /\ ~remove_margin)

\* C6: with draw_guidelines and a positive gap every committed page, full or
\* not, gets exactly columns + 1 vertical and rows + 1 horizontal guideline
\* rectangles; without draw_guidelines no rectangle is drawn at all.
C6_GuidelineCounts ==
    /\ ~draw_guidelines => NumRects = 0
    /\ (draw_guidelines /\ ~remove_margin) =>
          LET vertical == PageVerticalBefore
              horizontal == PageHorizontalBefore
              rects == PageRectsBefore
          IN  \A k \in Calls("showPage") :
                  /\ vertical[k] = grid_x + 1
                  /\ horizontal[k] = grid_y + 1
                  /\ rects[k] = grid_x + grid_y + 2

\* C6 witness: a finished run with guidelines and a gap, of several pages,
\* the last one not full, each with its full set of guidelines.
C6_Witness ==
    /\ pc = "done"
    /\ draw_guidelines /\ ~remove_margin
    /\ NumCommits >= 2
    /\ PageLoad(NumCommits) < slotsPerPage
    /\ NumRects = NumCommits * (grid_x + grid_y + 2)

\* C7: for both page formats, every card size and both gaps the grid is
\* columns = max(1, floor((W + g) / (cw + g))), rows = max(1, floor((H + g) /
\* (ch + g))), so both are at least 1; a 300 x 300 mm card on A4 gives 1 x 1
\* and the standard card on A4 with gap 1 mm gives 3 x 3.
C7_GridFormula ==
    pc # "start" =>
        /\ grid_x = Max(1, (ps[1] + h_gap) \div (card_width + h_gap))
        /\ grid_y = Max(1, (ps[2] + v_gap) \div (card_height + v_gap))
        /\ grid_x >= 1 /\ grid_y >= 1
        /\ (page_option = "A4" /\ custom_card_size = <<3000, 3000>>)
              => (grid_x = 1 /\ grid_y = 1)
        /\ (page_option = "A4" /\ card_size_mode = "standard" /\ ~remove_margin)
              => (grid_x = 3 /\ grid_y = 3)

\* C8: when some item has copies < 1 the run is rejected before any backend
\* call: no image, no guideline rectangle, no commit, no finalize.
C8_InvalidItemRejected ==
    ~AllCopiesValid => calls = <<>>

\* C9: the backend calls of a run follow the page state machine: the images
\* of a page, then its guideline rectangles, then one commit; no image of a
\* later page before the commit of the page before; one finalize, after the
\* commit that follows the last image (the first call of an empty run), and
\* nothing after it.
C9_CallOrder ==
    LET draws == DrawsBefore
        commits == CommitsBefore
    IN  /\ \A k \in 1 .. Len(calls) - 1 :
              LET a == calls[k].op
                  b == calls[k + 1].op
              IN  \/ a = "drawImage" /\ b \in {"drawImage", "rect", "showPage"}
                  \/ a = "rect" /\ b \in {"rect", "showPage"}
                  \/ a = "showPage" /\ b \in {"drawImage", "save"}
        /\ Len(calls) >= 1 => calls[1].op \in {"drawImage", "save"}
        /\ \A k \in Calls("drawImage") :
              commits[k] = draws[k] \div slotsPerPage
        /\ \A k \in Calls("save") : k = Len(calls) /\ draws[k] = Len(images)
        /\ pc = "done" <=> Cardinality(Calls("save")) = 1

\* C9 witness: a finished run of several pages with guidelines, ending with
\* the finalize right after the last commit.
C9_Witness ==
    /\ pc = "done"
    /\ NumCommits >= 2
    /\ NumRects > 0
    /\ calls[Len(calls)].op = "save"
    /\ calls[Len(calls) - 1].op = "showPage"

\* A rectangle's top edge measured from the top of the page.
TopOf(c) == ps[2] - c.y - c.h

\* The rectangle shares area with a card slot of the grid: with the columns
\* of one of them and with the rows of one of them.
OverlapsSlot(c) ==
    /\ \E column \in 0 .. grid_x - 1 :
          LET sx == column * (card_width + h_gap)
          IN  c.x < sx + card_width /\ sx < c.x + c.w
    /\ \E line \in 0 .. grid_y - 1 :
          LET sy == line * (card_height + v_gap)
          IN  TopOf(c) < sy + card_height /\ sy < TopOf(c) + c.h

\* The rectangle is a vertical guideline that starts at x, or a horizontal
\* one that starts at y from the top.
VerticalAt(c, x) ==
    /\ c.x = x /\ c.w = h_gap
    /\ TopOf(c) = 0 /\ c.h = ps[2]
HorizontalAt(c, y) ==
    /\ TopOf(c) = y /\ c.h = v_gap
    /\ c.x = 0 /\ c.w = ps[1]

\* C10 as stated: with guidelines and a positive gap g, vertical guideline
\* col of 0 .. columns is the strip from col * (cw + g) - g to col * (cw + g),
\* the one for col = 0 so lying one gap-width before the first card, and the
\* horizontal ones likewise; no guideline overlaps a card slot.
C10_NoGuidelineOverlapsSlot ==
    (draw_guidelines /\ ~remove_margin) =>
        LET rects == PageRectsBefore
        IN  \A k \in Calls("rect") :
                LET n == rects[k]
                IN  /\ IF n <= grid_x
                       THEN VerticalAt(calls[k], n * (card_width + h_gap) - h_gap)
                       ELSE HorizontalAt(calls[k],
                                (n - grid_x - 1) * (card_height + v_gap) - v_gap)
                    /\ ~OverlapsSlot(calls[k])

\* C10 amended: guideline col of 1 .. columns is the strip from
\* col * (cw + g) - g to col * (cw + g) and overlaps no card slot; the one for
\* col = 0 starts at the left page edge (x from 0 to g) and so covers the
\* first gap-width of the slots of column 0.  Likewise for the horizontal
\* guidelines, rows and the top page edge.
C10_GuidelinePositions ==
    (draw_guidelines /\ ~remove_margin) =>
        LET rects == PageRectsBefore
        IN  \A k \in Calls("rect") :
                LET n == rects[k]
                    m == n - grid_x - 1
                IN  /\ n <= grid_x + grid_y + 1
                    /\ n = 0 => VerticalAt(calls[k], 0)
                    /\ (1 <= n /\ n <= grid_x) =>
                          VerticalAt(calls[k], n * (card_width + h_gap) - h_gap)
                    /\ m = 0 => HorizontalAt(calls[k], 0)
                    /\ 1 <= m =>
                          HorizontalAt(calls[k], m * (card_height + v_gap) - v_gap)
                    /\ OverlapsSlot(calls[k]) <=> (n = 0 \/ m = 0)

\* C10 witness: a committed page of a grid with several columns and rows and
\* a positive gap, with all its guidelines drawn.
C10_Witness ==
    LET rects == PageRectsBefore
    IN  /\ draw_guidelines /\ ~remove_margin
        /\ grid_x >= 2 /\ grid_y >= 2
        /\ \E k \in Calls("showPage") : rects[k] = grid_x + grid_y + 2

\* The grid is not clamped: at least one card fits along each axis.
Unclamped ==
    /\ (ps[1] + h_gap) \div (card_width + h_gap) >= 1
    /\ (ps[2] + v_gap) \div (card_height + v_gap) >= 1

\* Two rectangles of the backend share area.
Overlap(c, d) ==
    /\ c.x < d.x + d.w /\ d.x < c.x + c.w
    /\ c.y < d.y + d.h /\ d.y < c.y + c.h

\* C11: when the grid is not clamped, every image is drawn, in the backend's
\* bottom-left-origin coordinates, with the card's size and entirely inside
\* the page [0, W] x [0, H]; the images of one page do not overlap; and the
\* first slot of a page (column 0, row 0) touches the left and the top edge
\* of the page.
C11_ImagesInsidePage ==
    LET commits == CommitsBefore
        pageDraws == PageDrawsBefore
    IN  \A k \in Calls("drawImage") :
            Unclamped =>
                /\ calls[k].w = card_width /\ calls[k].h = card_height
                /\ 0 <= calls[k].x /\ calls[k].x + calls[k].w <= ps[1]
                /\ 0 <= calls[k].y /\ calls[k].y + calls[k].h <= ps[2]
                /\ pageDraws[k] = 0 =>
                      (calls[k].x = 0 /\ calls[k].y + calls[k].h = ps[2])
                /\ \A j \in Calls("drawImage") :
                      (j < k /\ commits[j] = commits[k]) => ~Overlap(calls[j], calls[k])

\* C11 witness: on an unclamped grid of several columns and rows, an image
\* drawn in the last slot of a page that the grid fills exactly: it reaches
\* the right and the bottom edge of the page.
C11_Witness ==
    /\ pc # "start"
    /\ Unclamped
    /\ grid_x >= 2 /\ grid_y >= 2
    /\ \E k \in Calls("drawImage") :
          /\ calls[k].x > 0
          /\ calls[k].x + calls[k].w = ps[1]
          /\ calls[k].y = 0

---------------------------------------------------------------------------
(* The window: the user toggles the two option boxes and clicks preview or *)
(* generate, which call create_pdf with what the boxes show.  Handlers run *)
(* on the one event loop: no toggle or click is handled while create_pdf   *)
(* runs.                                                                   *)

\* What the table can hold when a button is clicked: rows of an image and a
\* quantity of at least 1 (setMinimum(1), line 262); lines 278-288.
TableContents == SeqsUpTo([image : ImageNames, qty : 1 .. MaxCopies], MaxRows)

\* Lines 319-320 and 335-336: the card size combo, with the spin boxes at
\* their initial values (lines 137 and 143) when it shows the custom size.
WindowCardChoices == { <<"standard", None>>, <<"custom", <<630, 880>>>> }

Idle == pc \in {"idle", "done"}

\* The window after init_ui, before any click.
InitWindow ==
    /\ InitUi
    /\ image_quantity_list = <<>>
    /\ page_option = "A4"
    /\ draw_guidelines = TRUE
    /\ remove_margin = FALSE
    /\ card_size_mode = "standard"
    /\ custom_card_size = None
    /\ ps = <<0, 0>>
    /\ card_width = 0 /\ card_height = 0
    /\ h_gap = 0 /\ v_gap = 0
    /\ grid_x = 0 /\ grid_y = 0 /\ total_per_page = 0
    /\ images = <<>>
    /\ i = 0 /\ col = 0 /\ row = 0
    /\ pc = "idle"
    /\ calls = <<>>

\* The user toggles the remove-margin box; stateChanged runs update_options
\* (line 166).
ToggleMargin ==
    /\ Idle
    /\ margin_checkbox' = [checked |-> ~margin_checkbox.checked]
    /\ guidelines_checkbox' =
           UpdateOptions(~margin_checkbox.checked, guidelines_checkbox)
    /\ UNCHANGED <<args, geometry, images, i, col, row, pc, calls>>

\* The user toggles the guidelines box, which a disabled box does not allow.
ToggleGuidelines ==
    /\ Idle
    /\ guidelines_checkbox.enabled
    /\ guidelines_checkbox' =
           [guidelines_checkbox EXCEPT !.checked = ~guidelines_checkbox.checked]
    /\ UNCHANGED <<args, geometry, images, i, col, row, pc, calls, margin_checkbox>>

\* Lines 321-325 and 337-343: create_pdf is entered with the state of the two
\* boxes as draw_guidelines and remove_margin, on a new canvas.
CallCreatePdf(list, page, choice) ==
    /\ image_quantity_list' = list
    /\ page_option' = page
    /\ card_size_mode' = choice[1]
    /\ custom_card_size' = choice[2]
    /\ draw_guidelines' = guidelines_checkbox.checked
    /\ remove_margin' = margin_checkbox.checked
    /\ ps' = <<0, 0>>
    /\ card_width' = 0 /\ card_height' = 0
    /\ h_gap' = 0 /\ v_gap' = 0
    /\ grid_x' = 0 /\ grid_y' = 0 /\ total_per_page' = 0
    /\ images' = <<>>
    /\ i' = 0 /\ col' = 0 /\ row' = 0
    /\ pc' = "start"
    /\ calls' = <<>>
    /\ UNCHANGED window

\* preview_pdf, lines 313-327: nothing happens with an empty table.
PreviewPdf ==
    /\ Idle
    /\ \E list \in TableContents, page \in {"A4", "A3"}, choice \in WindowCardChoices :
          IF list = <<>>
          THEN UNCHANGED vars
          ELSE CallCreatePdf(list, page, choice)

\* generate_pdf, lines 329-344: nothing happens with an empty table or when
\* the save dialog is cancelled.
GeneratePdf ==
    /\ Idle
    /\ \E list \in TableContents, page \in {"A4", "A3"}, choice \in WindowCardChoices,
          chosen \in BOOLEAN :
          IF list = <<>> \/ ~chosen
          THEN UNCHANGED vars
          ELSE CallCreatePdf(list, page, choice)

NextWindow ==
    \/ ToggleMargin \/ ToggleGuidelines \/ PreviewPdf \/ GeneratePdf
    \/ Begin \/ DrawImage \/ VGuide \/ HGuide \/ ShowPage \/ Save

SpecWindow == InitWindow /\ [][NextWindow]_vars

\* C12: from the initial window, after any toggles of the two boxes, the
\* remove-margin box checked means the guidelines box unchecked and disabled
\* (and unchecked means it enabled), so preview and generate never call
\* create_pdf with remove_margin and draw_guidelines both true; unchecking
\* the remove-margin box enables the guidelines box and leaves it unchecked.
C12_MarginDisablesGuidelines ==
    /\ [](margin_checkbox.checked <=> ~guidelines_checkbox.enabled)
    /\ [](margin_checkbox.checked => ~guidelines_checkbox.checked)
    /\ [](pc # "idle" => ~(remove_margin /\ draw_guidelines))
    /\ [][(margin_checkbox.checked /\ ~margin_checkbox'.checked)
             => (guidelines_checkbox'.enabled /\ ~guidelines_checkbox'.checked)]_vars

\* C12 witness: create_pdf has run with the remove-margin box checked, and
\* the user has then unchecked that box: the guidelines box is enabled again
\* and still unchecked.
C12_Witness ==
    /\ pc = "done"
    /\ remove_margin /\ ~draw_guidelines
    /\ ~margin_checkbox.checked
    /\ guidelines_checkbox.enabled /\ ~guidelines_checkbox.checked

====
